---------------------------- MODULE Spec2Model ----------------------------
(***************************************************************************)
(* A model of src/main.py: the job-application tracker.                    *)
(*                                                                         *)
(* Two physical stores exist on disk: applications.csv (the tabular store) *)
(* and the Jobs table of applications.sqlite (the relational store).       *)
(* One interactive process (class Database, reached through Facade) holds  *)
(* the in-memory dataframe, the new_entries buffer and the two counters.   *)
(* The administrative commands (new, clean, tosql, tocsv) are one-shot     *)
(* processes working on the files directly.                                *)
(*                                                                         *)
(* A date has two representations.  In memory it is a Timestamp, modelled  *)
(* as the number of the day.  In a file it is text, modelled as a record   *)
(* [day, fmt]: fmt = "full" is the text "YYYY-MM-DD 00:00:00" and          *)
(* fmt = "date" is the text "YYYY-MM-DD".                                  *)
(***************************************************************************)
EXTENDS Integers, Sequences, FiniteSets, TLC

\* ------------------------------------------------------------- bounds
\* Days of the calendar the model runs through.
MaxDay == 2
\* Entries and updates typed in over the whole run.
MaxWrites == 3
\* Entries and updates typed in before the administrative commands are tried.
AdminWrites == 2
\* Entries and updates typed in over the sessions of the interactive loop.
SessionWrites == 2

\* ------------------------------------------------------------- inputs
\* Company names typed by the user, in the lexicographic order of the text;
\* none of them is a text read_csv takes for a missing value.
CompanyOrder == <<"Acme", "Globex">>
Companies == {CompanyOrder[i] : i \in DOMAIN CompanyOrder}
\* Status texts, in the lexicographic order of the text.
StatusOrder == <<"Applied", "Offered">>
Statuses == {StatusOrder[i] : i \in DOMAIN StatusOrder}
\* Quantities typed by the user: int(quantity) accepts a negative number.
Quantities == {0 - 1, 0, 1}
\* The answers to "What do you want to update?": s, c, or anything else.
Choices == {"s", "c", "x"}
\* The backend given on the command line.
Types == {"csv", "sql"}

VARIABLES
    clock,          \* the calendar day datetime.now() reports
    strict_format,  \* whether the installed pd.to_datetime enforces format= exactly
    csv,            \* applications.csv: [present, rows]
    sql,            \* table Jobs of applications.sqlite: [present, rows, quantity_type]
    type,           \* Database.type of the running process, "none" when no process runs
    date,           \* Database.date
    dataframe,      \* Database.dataframe, a sequence of rows
    date_dtype,     \* dtype of dataframe['Date']: "object" or "datetime64"
    new_entries,    \* Database.new_entries
    jobcount_today, \* Database.jobcount_today
    total_jobcount, \* Database.total_jobcount
    writes,         \* entries and updates typed so far
    last            \* the last command run and how it ended

vars == <<clock, strict_format, csv, sql, type, date, dataframe, date_dtype,
          new_entries, jobcount_today, total_jobcount, writes, last>>

files == <<csv, sql>>
engine == <<type, date, dataframe, date_dtype, new_entries, jobcount_today,
            total_jobcount>>

\* ------------------------------------------------------------- helpers
RECURSIVE SumQuantity(_)
\* Series.sum() of the Quantity column.
SumQuantity(rows) ==
    IF rows = <<>> THEN 0
    ELSE Head(rows).Quantity + SumQuantity(Tail(rows))

\* dataframe[dataframe['Company'] == name]
RowsOfCompany(rows, name) == SelectSeq(rows, LAMBDA r : r.Company = name)

\* dataframe[dataframe['Date'] == day]
RowsOfDate(rows, day) == SelectSeq(rows, LAMBDA r : r.Date = day)

\* Series.max() of the Date column of a non-empty frame of Timestamps.
MaxDate(rows) ==
    CHOOSE d \in {rows[i].Date : i \in DOMAIN rows} :
        \A i \in DOMAIN rows : rows[i].Date <= d

\* str(Timestamp): "YYYY-MM-DD 00:00:00".
TimestampText(day) == [day |-> day, fmt |-> "full"]

\* The text to_csv writes for a cell of a datetime64 column whose values are
\* all midnight: "YYYY-MM-DD".
DateOnlyText(day) == [day |-> day, fmt |-> "date"]

\* pd.to_datetime(text, format="%Y-%m-%d %H:%M:%S") succeeds: always on the
\* full text; on the date-only text unless the format is enforced exactly.
CanParse(text) == text.fmt = "full" \/ ~strict_format

\* The Timestamp pd.to_datetime returns.
ToDatetime(text) == text.day

AllParse(rows) == \A i \in DOMAIN rows : CanParse(rows[i].Date)

\* The Load loops: every Date cell replaced by its Timestamp.
ParseRows(rows) ==
    [i \in DOMAIN rows |-> [rows[i] EXCEPT !.Date = ToDatetime(rows[i].Date)]]

\* DataFrame.to_csv of the dataframe: a datetime64 Date column of midnights is
\* written date-only, an object column of Timestamps through str().
ToCsv(rows, dtype) ==
    [i \in DOMAIN rows |->
        [rows[i] EXCEPT !.Date = IF dtype = "datetime64"
                                 THEN DateOnlyText(rows[i].Date)
                                 ELSE TimestampText(rows[i].Date)]]

\* DataFrame.to_sql of new_entries: a datetime64 cell is bound as a datetime,
\* which sqlite3 stores as "YYYY-MM-DD 00:00:00".
ToSql(rows) ==
    [i \in DOMAIN rows |-> [rows[i] EXCEPT !.Date = TimestampText(rows[i].Date)]]

\* dtype of the Date column of pd.concat([frame, input_row]): input_row's
\* column is datetime64, and an empty frame does not count.
ConcatDtype(rows, dtype) == IF rows = <<>> THEN "datetime64" ELSE dtype

\* The command last run and how it ended.
Command(op, result) == [op |-> op, result |-> result]

\* ------------------------------------------------------------- Database
is_csv(t) == t = "csv"

\* Database.__init__: the counters computed from the loaded frame.
TodayCount(rows, day) == SumQuantity(RowsOfDate(rows, day))
PriorCount(rows, day) == SumQuantity(rows) - TodayCount(rows, day)

StoreOf(t) == IF is_csv(t) THEN csv ELSE sql

\* The Quantity column read back can be summed and subtracted: read_csv
\* infers integers; read_sql_query gives what SQLite stored, which in a
\* column declared TEXT is the text of the number, and sum() of texts is a
\* text that the subtraction of __init__ rejects with TypeError.
CanSum(t) ==
    is_csv(t) \/ sql.quantity_type = "INTEGER" \/ sql.rows = <<>>

\* Facade(type) -> Database(type): the store is read and parsed.
Load(t) ==
    /\ type = "none"
    /\ StoreOf(t).present
    /\ AllParse(StoreOf(t).rows)
    /\ CanSum(t)
    /\ type' = t
    /\ date' = clock
    /\ dataframe' = ParseRows(StoreOf(t).rows)
    /\ date_dtype' = "object"
    /\ new_entries' = <<>>
    /\ jobcount_today' = TodayCount(ParseRows(StoreOf(t).rows), clock)
    /\ total_jobcount' = PriorCount(ParseRows(StoreOf(t).rows), clock)
    /\ last' = Command("load", "ok")
    /\ UNCHANGED <<clock, strict_format, writes, csv, sql>>

\* __init__ with the exception swallowed: the process goes on with the rows
\* that were read, none of the failing store's counted.
LoadFailsMutant(t) ==
    /\ type = "none"
    /\ StoreOf(t).present
    /\ ~AllParse(StoreOf(t).rows) \/ ~CanSum(t)
    /\ type' = t
    /\ date' = clock
    /\ dataframe' = <<>>
    /\ last' = Command("load", "ValueError")
    /\ UNCHANGED <<clock, strict_format, writes, csv, sql, date_dtype,
                   new_entries, jobcount_today, total_jobcount>>

\* Database.__init__ raising ValueError on a Date cell, or TypeError on the
\* counters: nothing catches it and the process dies.
LoadFails(t) ==
    /\ type = "none"
    /\ StoreOf(t).present
    /\ ~AllParse(StoreOf(t).rows) \/ ~CanSum(t)
    /\ last' = Command("load", IF ~AllParse(StoreOf(t).rows) THEN "ValueError"
                                ELSE "TypeError")
    /\ UNCHANGED <<clock, strict_format, writes, csv, sql, engine>>

\* UPDATE Jobs SET Quantity = Quantity + value WHERE Company = company AND Date = str(self.date)
SqlUpdateQuantity(rows, value, company, day) ==
    [i \in DOMAIN rows |->
        IF rows[i].Company = company /\ rows[i].Date = TimestampText(day)
        THEN [rows[i] EXCEPT !.Quantity = @ + value]
        ELSE rows[i]]

\* UPDATE Jobs SET Status = status, the WHERE clause left out.
SqlUpdateStatusMutant(rows, status, company) ==
    [i \in DOMAIN rows |-> [rows[i] EXCEPT !.Status = status]]

\* UPDATE Jobs SET Status = status WHERE Company = company
SqlUpdateStatus(rows, status, company) ==
    [i \in DOMAIN rows |->
        IF rows[i].Company = company THEN [rows[i] EXCEPT !.Status = status]
        ELSE rows[i]]

\* UPDATE Jobs SET Company = status WHERE Company = company
SqlUpdateCompany(rows, status, company) ==
    [i \in DOMAIN rows |->
        IF rows[i].Company = company THEN [rows[i] EXCEPT !.Company = status]
        ELSE rows[i]]

\* Database.commit on the tabular backend: the rows of applications.csv after it.
CommitCsv(replace, frame, dtype, entries) ==
    IF replace
    THEN csv.rows \o ToCsv(entries, "datetime64")
    ELSE ToCsv(frame, dtype)

\* Database.commit on the relational backend: the rows of Jobs after it.
CommitSql(replace, status_replace, value, company, status, choice, entries) ==
    IF replace
    THEN SqlUpdateQuantity(sql.rows, value, company, date)
    ELSE IF status_replace
         THEN IF choice = "s"
              THEN SqlUpdateStatus(sql.rows, status, company)
              ELSE SqlUpdateCompany(sql.rows, status, company)
         ELSE sql.rows \o ToSql(entries)

\* commit without its last line: the buffer keeps the rows it has flushed.
commitMutant(replace, status_replace, value, company, status, choice, frame, dtype, entries) ==
    /\ IF is_csv(type)
       THEN /\ csv' = [csv EXCEPT !.rows = CommitCsv(replace, frame, dtype, entries)]
            /\ UNCHANGED sql
       ELSE /\ sql' = [sql EXCEPT !.rows =
                          CommitSql(replace, status_replace, value, company,
                                    status, choice, entries)]
            /\ UNCHANGED csv
    /\ new_entries' = entries

\* Database.commit, run on the frame and the buffer the caller has just set.
commit(replace, status_replace, value, company, status, choice, frame, dtype, entries) ==
    /\ IF is_csv(type)
       THEN /\ csv' = [csv EXCEPT !.rows = CommitCsv(replace, frame, dtype, entries)]
            /\ UNCHANGED sql
       ELSE /\ sql' = [sql EXCEPT !.rows =
                          CommitSql(replace, status_replace, value, company,
                                    status, choice, entries)]
            /\ UNCHANGED csv
    /\ new_entries' = <<>>

\* The test of append_entry that chooses between a new row and an increment.
IsNewEntry(found_data) ==
    SumQuantity(found_data) = 0 \/ MaxDate(found_data) # date

\* dataframe.loc[dataframe['Company'] == name, 'Quantity'] += quantity
IncrementQuantity(rows, name, quantity) ==
    [i \in DOMAIN rows |->
        IF rows[i].Company = name THEN [rows[i] EXCEPT !.Quantity = @ + quantity]
        ELSE rows[i]]

\* input_row of append_entry.
InputRow(name, quantity) ==
    [Company |-> name, Status |-> "Applied", Quantity |-> quantity, Date |-> date]

\* The frame append_entry leaves in memory.
AppendedFrame(name, quantity) ==
    IF IsNewEntry(RowsOfCompany(dataframe, name))
    THEN Append(dataframe, InputRow(name, quantity))
    ELSE IncrementQuantity(dataframe, name, quantity)

\* Database.append_entry
AppendEntry(name, quantity) ==
    /\ type # "none"
    /\ writes < MaxWrites
    /\ writes' = writes + 1
    /\ dataframe' = AppendedFrame(name, quantity)
    /\ IF IsNewEntry(RowsOfCompany(dataframe, name))
       THEN /\ date_dtype' = ConcatDtype(dataframe, date_dtype)
            /\ commit(FALSE, FALSE, 0, "", "", "s",
                      AppendedFrame(name, quantity),
                      ConcatDtype(dataframe, date_dtype),
                      Append(new_entries, InputRow(name, quantity)))
       ELSE /\ date_dtype' = date_dtype
            /\ IF is_csv(type)
               THEN commit(FALSE, FALSE, 0, "", "", "s",
                           AppendedFrame(name, quantity), date_dtype, new_entries)
               ELSE commit(TRUE, FALSE, quantity, name, "", "s",
                           AppendedFrame(name, quantity), date_dtype, new_entries)
    /\ jobcount_today' = jobcount_today + quantity
    /\ last' = Command("append", "ok")
    /\ UNCHANGED <<clock, strict_format, type, date, total_jobcount>>

\* update_entry without the row mask: the value is written to every row.
UpdatedFrameMutant(name, status, choice) ==
    IF choice = "s"
    THEN [i \in DOMAIN dataframe |-> [dataframe[i] EXCEPT !.Status = status]]
    ELSE IF choice = "c"
         THEN [i \in DOMAIN dataframe |-> [dataframe[i] EXCEPT !.Company = status]]
         ELSE dataframe

\* The frame update_entry leaves in memory.
UpdatedFrame(name, status, choice) ==
    IF choice = "s"
    THEN [i \in DOMAIN dataframe |->
            IF dataframe[i].Company = name
            THEN [dataframe[i] EXCEPT !.Status = status] ELSE dataframe[i]]
    ELSE IF choice = "c"
         THEN [i \in DOMAIN dataframe |->
                 IF dataframe[i].Company = name
                 THEN [dataframe[i] EXCEPT !.Company = status] ELSE dataframe[i]]
         ELSE dataframe

\* Database.update_entry
UpdateEntry(name, status, choice) ==
    /\ type # "none"
    /\ writes < MaxWrites
    /\ writes' = writes + 1
    /\ dataframe' = UpdatedFrame(name, status, choice)
    /\ commit(FALSE, TRUE, 0, name, status, choice,
              UpdatedFrame(name, status, choice), date_dtype, new_entries)
    /\ last' = Command("update", "ok")
    /\ UNCHANGED <<clock, strict_format, type, date, date_dtype, jobcount_today,
                   total_jobcount>>

\* search printing the whole frame.
searchMutant(name) == dataframe

\* Database.search: the rows printed.
search(name) == RowsOfCompany(dataframe, name)

Search(name) ==
    /\ type # "none"
    /\ last' = Command("search", "ok")
    /\ UNCHANGED <<clock, strict_format, writes, csv, sql, engine>>

\* Database.jobcount_check: the two numbers and the rows printed.
jobcount_check ==
    [today |-> jobcount_today,
     total |-> jobcount_today + total_jobcount,
     rows  |-> IF jobcount_today # 0 THEN RowsOfDate(dataframe, date) ELSE <<>>]

JobcountCheck ==
    /\ type # "none"
    /\ last' = Command("count", "ok")
    /\ UNCHANGED <<clock, strict_format, writes, csv, sql, engine>>

\* Facade.operation: sys.exit() ends the process.
Exit ==
    /\ type # "none"
    /\ type' = "none"
    /\ dataframe' = <<>>
    /\ date_dtype' = "object"
    /\ new_entries' = <<>>
    /\ jobcount_today' = 0
    /\ total_jobcount' = 0
    /\ date' = 0
    /\ last' = Command("exit", "ok")
    /\ UNCHANGED <<clock, strict_format, writes, csv, sql>>

\* Midnight passes; a running process keeps the date it captured, so the
\* day is advanced between processes.
Tick ==
    /\ type = "none"
    /\ clock < MaxDay
    /\ clock' = clock + 1
    /\ last' = Command("tick", "ok")
    /\ UNCHANGED <<strict_format, writes, csv, sql, engine>>

\* ------------------------------------------------------------- AdminTools
\* Lexicographic order of two Date texts: "YYYY-MM-DD" is a proper prefix of
\* "YYYY-MM-DD 00:00:00".
TextLeq(a, b) ==
    \/ a.day < b.day
    \/ a.day = b.day /\ (a.fmt = b.fmt \/ a.fmt = "date")

\* agg({..., 'Date': np.min}): the earliest Date text of the group.
MaxTextMutant(rows) ==
    CHOOSE t \in {rows[i].Date : i \in DOMAIN rows} :
        \A i \in DOMAIN rows : TextLeq(t, rows[i].Date)

\* np.max of the Date texts of a non-empty group.
MaxText(rows) ==
    CHOOSE t \in {rows[i].Date : i \in DOMAIN rows} :
        \A i \in DOMAIN rows : TextLeq(rows[i].Date, t)

\* Every (Company, Status) key, in the sorted order groupby emits them.
GroupKeys ==
    [k \in 1 .. (Len(CompanyOrder) * Len(StatusOrder)) |->
        [Company |-> CompanyOrder[((k - 1) \div Len(StatusOrder)) + 1],
         Status  |-> StatusOrder[((k - 1) % Len(StatusOrder)) + 1]]]

RowsOfKey(rows, key) ==
    SelectSeq(rows, LAMBDA r : r.Company = key.Company /\ r.Status = key.Status)

\* agg({'Quantity': np.size, ...}): the rows of a group counted, not summed.
GroupByMutant(rows) ==
    LET present == SelectSeq(GroupKeys, LAMBDA key : RowsOfKey(rows, key) # <<>>)
    IN  [g \in DOMAIN present |->
            [Company  |-> present[g].Company,
             Status   |-> present[g].Status,
             Quantity |-> Len(RowsOfKey(rows, present[g])),
             Date     |-> MaxText(RowsOfKey(rows, present[g]))]]

\* agg({'Quantity': 'first', ...}): the Quantity of the first row of a group.
GroupByFirstMutant(rows) ==
    LET present == SelectSeq(GroupKeys, LAMBDA key : RowsOfKey(rows, key) # <<>>)
    IN  [g \in DOMAIN present |->
            [Company  |-> present[g].Company,
             Status   |-> present[g].Status,
             Quantity |-> RowsOfKey(rows, present[g])[1].Quantity,
             Date     |-> MaxText(RowsOfKey(rows, present[g]))]]

\* groupby(['Company','Status'], as_index=False).agg({'Quantity': sum, 'Date': max})
GroupBy(rows) ==
    LET present == SelectSeq(GroupKeys, LAMBDA key : RowsOfKey(rows, key) # <<>>)
    IN  [g \in DOMAIN present |->
            [Company  |-> present[g].Company,
             Status   |-> present[g].Status,
             Quantity |-> SumQuantity(RowsOfKey(rows, present[g])),
             Date     |-> MaxText(RowsOfKey(rows, present[g]))]]

RECURSIVE InsertByDate(_, _)
\* One insertion step of the sort: r goes after the rows not greater than it.
InsertByDate(sorted, r) ==
    IF sorted = <<>> THEN <<r>>
    ELSE IF TextLeq(Head(sorted).Date, r.Date)
         THEN <<Head(sorted)>> \o InsertByDate(Tail(sorted), r)
         ELSE <<r>> \o sorted

RECURSIVE SortValues(_)
\* dataframe.sort_values(by='Date') on a frame this small: an insertion sort.
SortValues(rows) ==
    IF rows = <<>> THEN <<>>
    ELSE InsertByDate(SortValues(SubSeq(rows, 1, Len(rows) - 1)), rows[Len(rows)])

\* AdminTools.aggregate: the rows written back to applications.csv.
aggregate(rows) == SortValues(GroupBy(rows))

\* AdminTools.transpile: the rows to_sql writes, the cells of the file as read.
transpile(rows) == rows

\* The type to_sql declares for the Quantity column of the table it creates:
\* INTEGER for the integers read_csv inferred, TEXT for the object column of
\* a file with no rows.
SqlTypeName(rows) == IF rows = <<>> THEN "TEXT" ELSE "INTEGER"

\* untranspile writing only the first row of the table it read.
untranspileMutant(rows) ==
    ToCsv(ParseRows(IF Len(rows) > 1 THEN <<rows[1]>> ELSE rows), "object")

\* AdminTools.untranspile: every Date parsed, then written through str().
untranspile(rows) == ToCsv(ParseRows(rows), "object")

\* initialize_document without the test of os.listdir(): the header is
\* written over whatever file is there.
InitializeDocumentMutant ==
    /\ type = "none"
    /\ last' = Command("new", "ok")
    /\ csv' = [present |-> TRUE, rows |-> <<>>]
    /\ UNCHANGED <<clock, strict_format, writes, sql, engine>>

\* AdminTools.initialize_document
InitializeDocument ==
    /\ type = "none"
    /\ IF csv.present
       THEN /\ last' = Command("new", "already initialized")
            /\ UNCHANGED csv
       ELSE /\ last' = Command("new", "ok")
            /\ csv' = [present |-> TRUE, rows |-> <<>>]
    /\ UNCHANGED <<clock, strict_format, writes, sql, engine>>

\* AdminTools.aggregate
Aggregate ==
    /\ type = "none"
    /\ csv.present
    /\ csv' = [csv EXCEPT !.rows = aggregate(csv.rows)]
    /\ last' = Command("clean", "ok")
    /\ UNCHANGED <<clock, strict_format, writes, sql, engine>>

\* to_sql(..., if_exists='replace'): an existing table is never in the way.
TargetExistsMutant(store) == FALSE

\* to_sql(..., if_exists='fail') raises ValueError: the table Jobs exists.
TargetExists(store) == store.present

\* AdminTools.transpile
Transpile ==
    /\ type = "none"
    /\ csv.present
    /\ IF TargetExists(sql)
       THEN /\ last' = Command("tosql", "already exists")
            /\ UNCHANGED sql
       ELSE /\ last' = Command("tosql", "ok")
            /\ sql' = [present |-> TRUE, rows |-> transpile(csv.rows),
                       quantity_type |-> SqlTypeName(csv.rows)]
    /\ UNCHANGED <<clock, strict_format, writes, csv, engine>>

\* AdminTools.untranspile
Untranspile ==
    /\ type = "none"
    /\ sql.present
    /\ IF AllParse(sql.rows)
       THEN /\ last' = Command("tocsv", "ok")
            /\ csv' = [present |-> TRUE, rows |-> untranspile(sql.rows)]
       ELSE /\ last' = Command("tocsv", "ValueError")
            /\ UNCHANGED csv
    /\ UNCHANGED <<clock, strict_format, writes, sql, engine>>

Init ==
    /\ clock = 1
    /\ strict_format \in BOOLEAN
    /\ csv = [present |-> FALSE, rows |-> <<>>]
    /\ sql = [present |-> FALSE, rows |-> <<>>, quantity_type |-> "INTEGER"]
    /\ type = "none"
    /\ date = 0
    /\ dataframe = <<>>
    /\ date_dtype = "object"
    /\ new_entries = <<>>
    /\ jobcount_today = 0
    /\ total_jobcount = 0
    /\ writes = 0
    /\ last = Command("start", "ok")

Next ==
    \/ \E t \in Types : Load(t)
    \/ \E t \in Types : LoadFails(t)
    \/ \E n \in Companies, q \in Quantities : AppendEntry(n, q)
    \/ \E n \in Companies, v \in Statuses \ {"Applied"} : UpdateEntry(n, v, "s")
    \/ \E n \in Companies : \E v \in Companies \ {n}, c \in Choices \ {"s"} :
          UpdateEntry(n, v, c)
    \/ \E n \in Companies : Search(n)
    \/ JobcountCheck
    \/ Exit
    \/ Tick
    \/ InitializeDocument
    \/ Aggregate
    \/ Transpile
    \/ Untranspile

Spec == Init /\ [][Next]_vars

\* The administrative commands on stores that sessions of either backend
\* have filled with entries of non-negative quantities and status updates.
AdminNext ==
    \/ InitializeDocument
    \/ \E t \in Types : Load(t)
    \/ \E t \in Types : LoadFails(t)
    \/ \E n \in Companies, q \in Quantities :
          q >= 0 /\ writes < AdminWrites /\ AppendEntry(n, q)
    \/ \E n \in Companies, v \in Statuses \ {"Applied"} :
          writes < AdminWrites /\ UpdateEntry(n, v, "s")
    \/ Exit
    \/ Tick
    \/ Aggregate
    \/ Transpile
    \/ Untranspile

AdminSpec == Init /\ [][AdminNext]_vars

\* The interactive loop on either backend, every input the prompts accept,
\* on stores made by new and tosql.
SessionNext ==
    \/ InitializeDocument
    \/ Transpile
    \/ \E t \in Types : Load(t)
    \/ \E t \in Types : LoadFails(t)
    \/ \E n \in Companies, q \in Quantities :
          writes < SessionWrites /\ AppendEntry(n, q)
    \/ \E n \in Companies, v \in Statuses \ {"Applied"} :
          writes < SessionWrites /\ UpdateEntry(n, v, "s")
    \/ \E n \in Companies : \E v \in Companies \ {n}, c \in Choices \ {"s"} :
          writes < SessionWrites /\ UpdateEntry(n, v, c)
    \/ \E n \in Companies : Search(n)
    \/ JobcountCheck
    \/ Exit
    \/ Tick

SessionSpec == Init /\ [][SessionNext]_vars

\* ------------------------------------------------------------- properties
\* The rows of one (Company, Date) pair.
RowsOfDay(rows, c, day) == SelectSeq(rows, LAMBDA r : r.Company = c /\ r.Date = day)

\* At most one row per (Company, Date).
AtMostOneRowPerDay(rows) ==
    \A i \in DOMAIN rows : \A j \in DOMAIN rows :
        (rows[i].Company = rows[j].Company /\ rows[i].Date = rows[j].Date) => i = j

\* How often row r occurs in rows.
Occurrences(rows, r) == Cardinality({i \in DOMAIN rows : rows[i] = r})

\* The same rows, order ignored.
SameRows(a, b) ==
    \A r \in {a[i] : i \in DOMAIN a} \cup {b[i] : i \in DOMAIN b} :
        Occurrences(a, r) = Occurrences(b, r)

\* C1: every AppendEntry(c, q), q >= 0, of a run of same-day entries to a
\* company c that began with no row for c (so c has no row yet, or the one
\* row (c, today) the run has built) leaves exactly one row (c, today), whose
\* Quantity is the sum of all q of the run.
C1_SameDayEntriesSumInOneRow ==
    [][\A c \in Companies : \A q \in Quantities :
          ( /\ q >= 0
            /\ AppendEntry(c, q)
            /\ RowsOfCompany(dataframe, c) = RowsOfDay(dataframe, c, date)
            /\ Len(RowsOfCompany(dataframe, c)) <= 1 )
          => ( /\ Len(RowsOfDay(dataframe', c, date)) = 1
               /\ RowsOfDay(dataframe', c, date)[1].Quantity
                    = SumQuantity(RowsOfCompany(dataframe, c)) + q )]_vars

\* A record set the data model allows: non-negative quantities, at most one
\* row per (Company, Date).
ValidRecordSet(rows) ==
    /\ AtMostOneRowPerDay(rows)
    /\ \A i \in DOMAIN rows : rows[i].Quantity >= 0

\* The counters agree with a full scan of the rows: today is the sum of
\* Quantity over the rows dated day, today + prior the sum over all rows.
MatchesFullScan(rows, day, today, prior) ==
    /\ today = TodayCount(rows, day)
    /\ today + prior = SumQuantity(rows)

\* C2: the counters CountSummary reports equal a full scan of the in-memory
\* record set after every AppendEntry of a non-negative quantity, whatever
\* record set the data model allows it starts from.
C2_CountersMatchFullScan ==
    [][( /\ type # "none"
         /\ ValidRecordSet(dataframe)
         /\ MatchesFullScan(dataframe, date, jobcount_today, total_jobcount)
         /\ \E c \in Companies, q \in Quantities : q >= 0 /\ AppendEntry(c, q) )
       => MatchesFullScan(dataframe', date', jobcount_today', total_jobcount')]_vars

\* The rows a fresh Load of backend t would give.
LoadedRows(t, tabular, relational) ==
    ParseRows(IF is_csv(t) THEN tabular.rows ELSE relational.rows)

\* Every Date cell of the store is the full text "YYYY-MM-DD 00:00:00".
FullDateTexts(t, tabular, relational) ==
    LET rows == IF is_csv(t) THEN tabular.rows ELSE relational.rows
    IN  \A i \in DOMAIN rows : rows[i].Date.fmt = "full"

\* C3: a completed AppendEntry or UpdateEntry (of Status or Company) that
\* starts with the persisted store holding the rows of the in-memory record
\* set ends with the store holding the rows of the record set: a fresh Load
\* reproduces it.  Stated for the record sets the data model allows, in
\* stores whose Date cells are full timestamps.
C3_StoreHoldsRecordSet ==
    [][( /\ type # "none"
         /\ ValidRecordSet(dataframe)
         /\ LoadedRows(type, csv, sql) = dataframe
         /\ FullDateTexts(type, csv, sql)
         /\ \/ \E c \in Companies, q \in Quantities : q >= 0 /\ AppendEntry(c, q)
            \/ \E c \in Companies, v \in Statuses \cup Companies :
                  UpdateEntry(c, v, "s") \/ UpdateEntry(c, v, "c") )
       => LoadedRows(type', csv', sql') = dataframe']_vars

\* C4: a completed write (AppendEntry, UpdateEntry of Status or Company) on a
\* record set with at most one row per (Company, Date) leaves at most one row
\* per (Company, Date).
C4_OneRowPerCompanyAndDay ==
    [][( /\ type # "none"
         /\ AtMostOneRowPerDay(dataframe)
         /\ \/ \E c \in Companies, q \in Quantities : q >= 0 /\ AppendEntry(c, q)
            \/ \E c \in Companies, v \in Statuses \cup Companies :
                  UpdateEntry(c, v, "s") \/ UpdateEntry(c, v, "c") )
       => AtMostOneRowPerDay(dataframe')]_vars

\* C5: AppendEntry with a negative quantity fails with InvalidQuantity and
\* changes neither the record set, the counters nor the persisted stores.
C5_NegativeQuantityRejected ==
    [][\A c \in Companies : \A q \in Quantities :
          (q < 0 /\ AppendEntry(c, q))
          => ( /\ last'.result = "InvalidQuantity"
               /\ UNCHANGED <<dataframe, jobcount_today, total_jobcount, csv, sql>> )]_vars

\* C6: a migration whose destination store is present leaves the rows of the
\* destination as they were, in both directions: it never overwrites.  Stated
\* for stores holding record sets the data model allows.
C6_MigrationNeverOverwrites ==
    [][ ( /\ ValidRecordSet(ParseRows(csv.rows))
          /\ ValidRecordSet(ParseRows(sql.rows)) )
        => /\ (Transpile /\ sql.present)
                => ParseRows(sql'.rows) = ParseRows(sql.rows)
           /\ (Untranspile /\ csv.present)
                => ParseRows(csv'.rows) = ParseRows(csv.rows) ]_vars

\* C7: tosql on a populated tabular store while the table Jobs exists fails,
\* and both stores keep exactly their rows.
C7_ToRelationalRefusesExistingTarget ==
    [][(Transpile /\ sql.present /\ csv.rows # <<>>)
       => (last'.result = "already exists" /\ csv' = csv /\ sql' = sql)]_vars

\* C7 witness: tosql has just been refused, with rows in both stores.
C7_Witness ==
    /\ last = Command("tosql", "already exists")
    /\ csv.rows # <<>>
    /\ sql.rows # <<>>
    /\ ParseRows(sql.rows) # ParseRows(csv.rows)

\* C8: tosql followed by tocsv on a tabular store that loads gives back the
\* rows of the store, all four fields equal and order ignored, in a file
\* that loads again.
C8_MigrationRoundTrips ==
    (type = "none" /\ csv.present /\ AllParse(csv.rows))
    => /\ AllParse(transpile(csv.rows))
       /\ SameRows(ParseRows(untranspile(transpile(csv.rows))), ParseRows(csv.rows))
       /\ AllParse(untranspile(transpile(csv.rows)))

\* C8 witness: tocsv has just rewritten the tabular store from a relational
\* store that holds the date-only texts of the file tosql copied, and the
\* texts came back as full timestamps.
C8_Witness ==
    /\ last = Command("tocsv", "ok")
    /\ Len(sql.rows) >= 2
    /\ \A i \in DOMAIN sql.rows : sql.rows[i].Date.fmt = "date"
    /\ csv.rows = untranspile(sql.rows)
    /\ csv.rows # sql.rows

\* C9: clean is idempotent: aggregating the aggregated rows changes nothing.
C9_AggregateIdempotent ==
    (type = "none" /\ csv.present) => aggregate(aggregate(csv.rows)) = aggregate(csv.rows)

\* C9 witness: clean has just condensed two rows, which tosql had copied
\* before, to one row.
C9_Witness ==
    /\ last = Command("clean", "ok")
    /\ Len(sql.rows) = 2
    /\ Len(csv.rows) = 1
    /\ csv.rows = aggregate(sql.rows)
    /\ csv.rows[1].Quantity = 2

\* The example of the specification: day 1 and day 2 are any two days.
ExampleRow(quantity, day) ==
    [Company |-> "Acme", Status |-> "Applied", Quantity |-> quantity,
     Date |-> TimestampText(day)]

\* C10: clean leaves exactly one row per (Company, Status) pair of the input,
\* with the sum of the pair's Quantity and the latest of its Dates, the rows
\* in non-decreasing Date order; ("Acme","Applied",2,day1) and
\* ("Acme","Applied",3,day2) become ("Acme","Applied",5,day2).
C10_AggregateGroupsSumsAndSorts ==
    /\ (type = "none" /\ csv.present) =>
         LET out == aggregate(csv.rows)
         IN  /\ \A i \in DOMAIN csv.rows :
                   Len(RowsOfKey(out, csv.rows[i])) = 1
             /\ \A g \in DOMAIN out :
                   /\ RowsOfKey(csv.rows, out[g]) # <<>>
                   /\ out[g].Quantity = SumQuantity(RowsOfKey(csv.rows, out[g]))
                   /\ ToDatetime(out[g].Date) = MaxDate(ParseRows(RowsOfKey(csv.rows, out[g])))
             /\ \A g \in DOMAIN out : \A h \in DOMAIN out :
                   g < h => ToDatetime(out[g].Date) <= ToDatetime(out[h].Date)
    /\ aggregate(<<ExampleRow(2, 1), ExampleRow(3, 2)>>) = <<ExampleRow(5, 2)>>

\* C10 witness: clean has just run on two groups and put the Globex group,
\* dated earlier, before the Acme group that groupby emits first.
C10_Witness ==
    /\ last = Command("clean", "ok")
    /\ Len(csv.rows) = 2
    /\ csv.rows[1].Company = "Globex"
    /\ csv.rows[2].Company = "Acme"
    /\ csv.rows[1].Date.day < csv.rows[2].Date.day

C12_UpdateWithoutMatchIsNoOp ==
    [][\A c \in Companies : \A v \in Statuses \cup Companies :
          ( /\ UpdateEntry(c, v, "s") \/ UpdateEntry(c, v, "c")
            /\ RowsOfCompany(dataframe, c) = <<>>
            /\ RowsOfCompany(LoadedRows(type, csv, sql), c) = <<>> )
          => ( /\ last'.result = "ok"
               /\ UNCHANGED <<dataframe, jobcount_today, total_jobcount>>
               /\ csv'.present = csv.present
               /\ ParseRows(csv'.rows) = ParseRows(csv.rows)
               /\ sql' = sql )]_vars

\* C12 witness: an update has just run in a relational session whose one
\* row, its Status still Applied, is in the table as the entry wrote it.
C12_Witness ==
    /\ last = Command("update", "ok")
    /\ type = "sql"
    /\ Len(dataframe) = 1
    /\ dataframe[1].Status = "Applied"
    /\ sql.rows = ToSql(dataframe)

\* C13: new creates the tabular store with no rows when there is none, and
\* when there is one it ends with a message and leaves the store as it is.
C13_InitCreatesOrRefuses ==
    [][InitializeDocument
       => IF csv.present
          THEN last' = Command("new", "already initialized") /\ csv' = csv
          ELSE last' = Command("new", "ok")
               /\ csv' = [present |-> TRUE, rows |-> <<>>]]_vars

\* C13 witness: new has just been refused on a store that holds rows.
C13_Witness ==
    /\ last = Command("new", "already initialized")
    /\ csv.present
    /\ csv.rows # <<>>

\* C14: Load on a store with a Date that does not parse ends with the error
\* and no process: a process that operations can reach exists only after a
\* Load that parsed every row, and it holds all the rows of the store and
\* the counters computed from all of them.
C14_FailedLoadLeavesNoRecordSet ==
    [][ /\ \A t \in Types :
              (type = "none" /\ StoreOf(t).present /\ ~AllParse(StoreOf(t).rows)
                 /\ (Load(t) \/ LoadFails(t)))
              => ( /\ last' = Command("load", "ValueError")
                   /\ type' = "none"
                   /\ dataframe' = <<>>
                   /\ UNCHANGED <<csv, sql, jobcount_today, total_jobcount>> )
        /\ (type = "none" /\ type' # "none")
              => ( /\ AllParse(StoreOf(type').rows)
                   /\ dataframe' = ParseRows(StoreOf(type').rows)
                   /\ MatchesFullScan(dataframe', date', jobcount_today',
                                      total_jobcount') ) ]_vars

\* C14 witness: a Load has just failed on a tabular store whose rows carry
\* dates the parser rejects, and no process runs.
C14_Witness ==
    /\ last = Command("load", "ValueError")
    /\ type = "none"
    /\ csv.rows # <<>>
    /\ ~AllParse(csv.rows)

\* The indices of the rows of a company.
IndicesOf(rows, name) == {i \in DOMAIN rows : rows[i].Company = name}

\* The k-th smallest index of a set of indices.
KthIndex(indices, k) ==
    CHOOSE i \in indices : Cardinality({j \in indices : j <= i}) = k

\* C15: Search(company) returns the rows of the record set whose Company is
\* company, each as stored and in the stored order, an empty result
\* included; Search and CountSummary change neither the record set, the
\* buffer, the counters nor the stores.
C15_SearchAndCountReadOnly ==
    [][ /\ \A n \in Companies :
              Search(n)
              => ( /\ Len(search(n)) = Cardinality(IndicesOf(dataframe, n))
                   /\ \A k \in DOMAIN search(n) :
                         search(n)[k] = dataframe[KthIndex(IndicesOf(dataframe, n), k)]
                   /\ last'.result = "ok" )
        /\ ((\E n \in Companies : Search(n)) \/ JobcountCheck)
              => UNCHANGED <<dataframe, new_entries, jobcount_today,
                             total_jobcount, csv, sql>> ]_vars

\* C15 witness: a search has just run on a record set of two companies.
C15_Witness ==
    /\ last = Command("search", "ok")
    /\ Len(dataframe) = 2
    /\ dataframe[1].Company # dataframe[2].Company
    /\ Len(search("Globex")) = 1

\* C16: AppendEntry(c, q), q >= 0, on a record set the data model allows in
\* which c has a row dated today adds q to the Quantity of that row and
\* leaves every other row, those of c on other dates included, and the
\* number of rows as they were.  Stated for the entries that take the
\* increment branch.
C16_IncrementTouchesOnlyTodaysRow ==
    [][\A c \in Companies : \A q \in Quantities :
          ( /\ q >= 0
            /\ AppendEntry(c, q)
            /\ ValidRecordSet(dataframe)
            /\ RowsOfDay(dataframe, c, date) # <<>>
            /\ ~IsNewEntry(RowsOfCompany(dataframe, c)) )
          => ( /\ Len(dataframe') = Len(dataframe)
               /\ \A i \in DOMAIN dataframe :
                     dataframe'[i] =
                        IF dataframe[i].Company = c /\ dataframe[i].Date = date
                        THEN [dataframe[i] EXCEPT !.Quantity = @ + q]
                        ELSE dataframe[i] )]_vars

\* C17: on the tabular backend an AppendEntry of a non-negative quantity that
\* creates a new row leaves the rows the file had as they are in the file,
\* text for text, and writes the one new row after them.
C17_NewRowIsAppendedToTheFile ==
    [][\A c \in Companies : \A q \in Quantities :
          ( /\ is_csv(type)
            /\ q >= 0
            /\ ValidRecordSet(dataframe)
            /\ AppendEntry(c, q)
            /\ IsNewEntry(RowsOfCompany(dataframe, c)) )
          => ( /\ Len(csv'.rows) = Len(csv.rows) + 1
               /\ SubSeq(csv'.rows, 1, Len(csv.rows)) = csv.rows
               /\ ToDatetime(csv'.rows[Len(csv'.rows)].Date) = date
               /\ csv'.rows[Len(csv'.rows)].Company = c )]_vars

\* The store of the running process.
ActiveRows == IF is_csv(type) THEN csv.rows ELSE sql.rows

\* C18: the buffer of new rows is empty when AppendEntry or UpdateEntry
\* returns, on both backends, and a row is flushed once: an entry that makes
\* a new row adds one row to the store, any other write adds none.
C18_BufferEmptyAfterEveryWrite ==
    [][\A c \in Companies :
          /\ \A q \in Quantities :
                AppendEntry(c, q)
                => ( /\ new_entries' = <<>>
                     /\ Len(ActiveRows') = Len(ActiveRows)
                           + IF IsNewEntry(RowsOfCompany(dataframe, c)) THEN 1 ELSE 0 )
          /\ \A v \in Statuses \cup Companies : \A f \in Choices :
                UpdateEntry(c, v, f)
                => ( /\ new_entries' = <<>>
                     /\ Len(ActiveRows') = Len(ActiveRows) )]_vars

\* C18 witness: two entries, each a new row, have been flushed to the table
\* one after the other; the table holds each once and the buffer is empty.
C18_Witness ==
    /\ last = Command("append", "ok")
    /\ type = "sql"
    /\ new_entries = <<>>
    /\ Len(dataframe) = 2
    /\ sql.rows = ToSql(dataframe)

\* C19: UpdateEntry with a field that is neither s nor c, on a record set
\* the data model allows and a store that holds it, changes neither the
\* record set nor the rows of either store.
C19_UnknownFieldChangesNothing ==
    [][\A c \in Companies : \A v \in Statuses \cup Companies :
          \A f \in Choices \ {"s", "c"} :
             ( /\ UpdateEntry(c, v, f)
               /\ ValidRecordSet(dataframe)
               /\ LoadedRows(type, csv, sql) = dataframe )
             => ( /\ dataframe' = dataframe
                  /\ ParseRows(csv'.rows) = ParseRows(csv.rows)
                  /\ sql'.rows = sql.rows )]_vars

\* The Quantity of a company summed over rows.
CompanyQuantity(rows, name) == SumQuantity(RowsOfCompany(rows, name))

\* C20: clean conserves quantity: the sum of Quantity over all rows and the
\* sum per company are the same in the aggregated rows as in the rows of the
\* file, the aggregated file loads if the file did, and the total the
\* counters then report is the total they reported before.
C20_AggregateConservesQuantity ==
    (type = "none" /\ csv.present)
    => /\ SumQuantity(aggregate(csv.rows)) = SumQuantity(csv.rows)
       /\ \A n \in Companies :
             CompanyQuantity(aggregate(csv.rows), n) = CompanyQuantity(csv.rows, n)
       /\ AllParse(csv.rows)
             => /\ AllParse(aggregate(csv.rows))
                /\ \A day \in 1 .. MaxDay :
                      TodayCount(ParseRows(aggregate(csv.rows)), day)
                        + PriorCount(ParseRows(aggregate(csv.rows)), day)
                      = TodayCount(ParseRows(csv.rows), day)
                        + PriorCount(ParseRows(csv.rows), day)

\* C20 witness: clean has just condensed the two rows tosql had copied, and
\* the one row left carries the quantity of both.
C20_Witness ==
    /\ last = Command("clean", "ok")
    /\ Len(csv.rows) < Len(sql.rows)
    /\ SumQuantity(sql.rows) > 0
    /\ SumQuantity(csv.rows) = SumQuantity(sql.rows)
    /\ csv.rows = aggregate(sql.rows)
=============================================================================
